---------------------------- MODULE Spec2Model ----------------------------
(***************************************************************************)
(* Verification model of the Uniswap V3 SDK pool and its swap engine.      *)
(*                                                                         *)
(* Pool (src/src/entities/pool.rs) is translated from the source.  The     *)
(* swap loop v3_swap, the step math, TickMath and the provider look-ups    *)
(* are not among the source files: they are modelled from the design       *)
(* document (sections 4.1 - 4.4).                                          *)
(*                                                                         *)
(* Numbers are scaled so that they fit the model checker's integers: the   *)
(* tick range is [-MaxTick, MaxTick] instead of [-887272, 887272], a       *)
(* bitmap word holds WordSize positions instead of 256, and the sqrt price *)
(* of tick t is PriceGap * (t + MaxTick + 1): strictly increasing, with    *)
(* prices strictly between two neighbouring ticks, and with the fixed      *)
(* point unit Q96 the sqrt price of tick 0, as in TickMath.                *)
(***************************************************************************)
EXTENDS Integers, Sequences, FiniteSets, TLC

VARIABLES
    pc,      \* "start": no pool yet; "idle": between calls; "loop": in v3_swap;
             \* "done": a call has returned and the caller holds its result
    ctor,    \* arguments and outcome of the last constructor call
    pool,    \* the Pool
    call,    \* arguments of the current / last swap entry point call
    pre,     \* the Pool as it was when the current / last call was entered
    sw,      \* per-call constants of v3_swap: direction, kind, limit in force
    state,   \* the SwapState of the current / last call
    steps,   \* iterations of the swap loop run by the current / last call
    result,  \* what the last call returned
    ipc,     \* tick indices: "start": none built; "built"; "mutated": a
             \* mutator of the list has returned; "queried": a lookup has returned
    snapshot,  \* the tick snapshot and spacing both indices were built from
    list,      \* the TickListDataProvider: its Vec of ticks
    tick_map,  \* the TickMap built from the same snapshot, or its panic
    mutation,  \* the last mutator call on the list, the list before it, its result
    query,     \* the last lookup through both indices and what each returned
    conv       \* the last tick / price conversion: its input and what it returned

pool_vars == <<pc, ctor, pool, call, pre, sw, state, steps, result>>
index_vars == <<ipc, snapshot, list, tick_map, mutation, query>>
vars == <<pc, ctor, pool, call, pre, sw, state, steps, result,
          ipc, snapshot, list, tick_map, mutation, query, conv>>

---------------------------------------------------------------------------
(* Bounds of the model *)

MaxTick == 2          \* MAX_TICK = -MIN_TICK (887272 in TickMath)
WordSize == 2         \* positions per bitmap word (256 in TickBitMap)
PriceGap == 2         \* sqrt price distance between neighbouring ticks
MaxAmount == 2        \* largest amount a caller supplies
MaxLiquidity == 2     \* largest value of the liquidity type (u128::MAX)
MaxLen == 2           \* longest tick snapshot and longest tick list
MaxTerm == 3          \* largest numerator / denominator of a price given by the caller

---------------------------------------------------------------------------
(* Values *)

Max(a, b) == IF a >= b THEN a ELSE b
Min(a, b) == IF a <= b THEN a ELSE b
CeilDiv(a, b) == (a + b - 1) \div b

\* Token of uniswap_sdk_core: chain id and address
Token(c, a) == [chain_id |-> c, address |-> a]
TokenA == Token(1, 1)
TokenB == Token(1, 2)
TokenC == Token(2, 1)
Tokens == {TokenA, TokenB, TokenC}

\* FeeAmount: fee in hundredths of a bip, and its tick spacing
FeeAmount(f, s) == [fee |-> f, tick_spacing |-> s]
FEE_LOWEST == FeeAmount(100, 1)
FEE_CUSTOM == FeeAmount(3000, 2)
Fees == {FEE_LOWEST, FEE_CUSTOM}
FEE_DENOMINATOR == 1000000

Tick(i, g, n) == [index |-> i, liquidity_gross |-> g, liquidity_net |-> n]

\* Option<U160>
None == [some |-> FALSE, v |-> 0]
Some(x) == [some |-> TRUE, v |-> x]

Ok(v) == [ok |-> TRUE, err |-> "", v |-> v]
Err(e) == [ok |-> FALSE, err |-> e, v |-> 0]

---------------------------------------------------------------------------
(* TickMath *)

MIN_TICK == -MaxTick
MAX_TICK == MaxTick

get_sqrt_ratio_at_tick(t) ==
    IF t < MIN_TICK \/ t > MAX_TICK THEN Err("InvalidTick")
    ELSE Ok(PriceGap * (t + MaxTick + 1))

MIN_SQRT_RATIO == get_sqrt_ratio_at_tick(MIN_TICK).v
MAX_SQRT_RATIO == get_sqrt_ratio_at_tick(MAX_TICK).v
Q96 == get_sqrt_ratio_at_tick(0).v

\* mutant: the tick strictly below the ratio
get_tick_at_sqrt_ratio_strict(p) ==
    IF p < MIN_SQRT_RATIO \/ p > MAX_SQRT_RATIO THEN Err("InvalidSqrtRatio")
    ELSE Ok(CHOOSE t \in (MIN_TICK - 1)..MAX_TICK :
               /\ t >= MIN_TICK => get_sqrt_ratio_at_tick(t).v < p
               /\ (t < MAX_TICK => p <= get_sqrt_ratio_at_tick(t + 1).v))

\* floor semantics: the tick t with sqrtRatioAtTick(t) <= ratio < sqrtRatioAtTick(t+1)
get_tick_at_sqrt_ratio(p) ==
    IF p < MIN_SQRT_RATIO \/ p > MAX_SQRT_RATIO THEN Err("InvalidSqrtRatio")
    ELSE Ok(CHOOSE t \in MIN_TICK..MAX_TICK :
               /\ get_sqrt_ratio_at_tick(t).v <= p
               /\ (t < MAX_TICK => p < get_sqrt_ratio_at_tick(t + 1).v))

SqrtPrices == (MIN_SQRT_RATIO - 1)..(MAX_SQRT_RATIO + 1)

---------------------------------------------------------------------------
(* Tick data provider: a list of ticks sorted by index *)

RECURSIVE SumNet(_)
SumNet(ticks) ==
    IF ticks = <<>> THEN 0 ELSE Head(ticks).liquidity_net + SumNet(Tail(ticks))

Indices(ticks) == {ticks[k].index : k \in 1..Len(ticks)}

\* tick index compressed by the spacing (rounding towards minus infinity)
compress(tick, tick_spacing) == tick \div tick_spacing

\* word of a compressed position (compressed >> 8)
word_pos(compressed) == compressed \div WordSize

\* binary search of a tick index among the positions l..r of the list
RECURSIVE binary_search_by_tick(_, _, _, _)
binary_search_by_tick(ticks, index, l, r) ==
    IF l > r THEN 0
    ELSE IF ticks[(l + r) \div 2].index = index THEN (l + r) \div 2
    ELSE IF ticks[(l + r) \div 2].index < index
    THEN binary_search_by_tick(ticks, index, (l + r) \div 2 + 1, r)
    ELSE binary_search_by_tick(ticks, index, l, (l + r) \div 2 - 1)

get_tick_at(ticks, i) == IF i = 0 THEN Err("InvalidTick") ELSE Ok(ticks[i])

get_tick(ticks, index) ==
    get_tick_at(ticks, binary_search_by_tick(ticks, index, 1, Len(ticks)))

\* the next initialized tick, searched only in the word of the query:
\* <<tick, initialized>>
next_initialized_tick_within_one_word(ticks, tick, lte, tick_spacing) ==
    LET compressed == compress(tick, tick_spacing) IN
    IF lte
    THEN LET word == word_pos(compressed)
             minimum == word * WordSize * tick_spacing
             below == {i \in Indices(ticks) :
                          /\ compress(i, tick_spacing) <= compressed
                          /\ word_pos(compress(i, tick_spacing)) = word}
         IN  IF below = {} THEN <<minimum, FALSE>>
             ELSE <<CHOOSE i \in below : \A j \in below : j <= i, TRUE>>
    ELSE LET word == word_pos(compressed + 1)
             maximum == ((word + 1) * WordSize - 1) * tick_spacing
             above == {i \in Indices(ticks) :
                          /\ compress(i, tick_spacing) > compressed
                          /\ word_pos(compress(i, tick_spacing)) = word}
         IN  IF above = {} THEN <<maximum, FALSE>>
             ELSE <<CHOOSE i \in above : \A j \in above : i <= j, TRUE>>

\* liquidity (unsigned) plus a signed delta
add_delta(x, y) ==
    IF x + y < 0 \/ x + y > MaxLiquidity THEN Err("AddDeltaError") ELSE Ok(x + y)

---------------------------------------------------------------------------
(* Constant-product step math, in Q96 fixed point *)

\* amount of token0 between two sqrt prices
get_amount_0_delta(sqrt_a, sqrt_b, liquidity, round_up) ==
    LET lo == Min(sqrt_a, sqrt_b)
        hi == Max(sqrt_a, sqrt_b)
        numerator1 == liquidity * Q96
        numerator2 == hi - lo
    IN  IF round_up
        THEN CeilDiv(CeilDiv(numerator1 * numerator2, hi), lo)
        ELSE ((numerator1 * numerator2) \div hi) \div lo

\* amount of token1 between two sqrt prices
get_amount_1_delta(sqrt_a, sqrt_b, liquidity, round_up) ==
    LET lo == Min(sqrt_a, sqrt_b)
        hi == Max(sqrt_a, sqrt_b)
    IN  IF round_up
        THEN CeilDiv(liquidity * (hi - lo), Q96)
        ELSE (liquidity * (hi - lo)) \div Q96

get_next_sqrt_price_from_amount_0_rounding_up(sqrt_p, liquidity, amount, add) ==
    IF amount = 0 THEN Ok(sqrt_p)
    ELSE LET numerator1 == liquidity * Q96
             product == amount * sqrt_p
         IN  IF add
             THEN Ok(CeilDiv(numerator1 * sqrt_p, numerator1 + product))
             ELSE IF numerator1 <= product THEN Err("SqrtPriceMathError")
                  ELSE Ok(CeilDiv(numerator1 * sqrt_p, numerator1 - product))

get_next_sqrt_price_from_amount_1_rounding_down(sqrt_p, liquidity, amount, add) ==
    IF add
    THEN Ok(sqrt_p + (amount * Q96) \div liquidity)
    ELSE LET quotient == CeilDiv(amount * Q96, liquidity)
         IN  IF sqrt_p <= quotient THEN Err("SqrtPriceMathError")
             ELSE Ok(sqrt_p - quotient)

get_next_sqrt_price_from_input(sqrt_p, liquidity, amount_in, zero_for_one) ==
    IF sqrt_p <= 0 \/ liquidity <= 0 THEN Err("SqrtPriceMathError")
    ELSE IF zero_for_one
         THEN get_next_sqrt_price_from_amount_0_rounding_up(sqrt_p, liquidity, amount_in, TRUE)
         ELSE get_next_sqrt_price_from_amount_1_rounding_down(sqrt_p, liquidity, amount_in, TRUE)

get_next_sqrt_price_from_output(sqrt_p, liquidity, amount_out, zero_for_one) ==
    IF sqrt_p <= 0 \/ liquidity <= 0 THEN Err("SqrtPriceMathError")
    ELSE IF zero_for_one
         THEN get_next_sqrt_price_from_amount_1_rounding_down(sqrt_p, liquidity, amount_out, FALSE)
         ELSE get_next_sqrt_price_from_amount_0_rounding_up(sqrt_p, liquidity, amount_out, FALSE)

\* the amount left of an exact input once the fee is taken
amount_remaining_less_fee(amount_remaining, fee_pips) ==
    (amount_remaining * (FEE_DENOMINATOR - fee_pips)) \div FEE_DENOMINATOR

\* the input that moves the price from sqrt_current to sqrt_p (rounded up):
\* token0 when the price falls, token1 when it rises
amount_in_to(sqrt_current, sqrt_p, liquidity) ==
    IF sqrt_current >= sqrt_p
    THEN get_amount_0_delta(sqrt_p, sqrt_current, liquidity, TRUE)
    ELSE get_amount_1_delta(sqrt_current, sqrt_p, liquidity, TRUE)

\* the output of moving the price from sqrt_current to sqrt_p (rounded down)
amount_out_to(sqrt_current, sqrt_p, liquidity) ==
    IF sqrt_current >= sqrt_p
    THEN get_amount_1_delta(sqrt_p, sqrt_current, liquidity, FALSE)
    ELSE get_amount_0_delta(sqrt_current, sqrt_p, liquidity, FALSE)

\* the price a step reaches: the target, or as far as the remaining amount goes
sqrt_ratio_next(sqrt_current, sqrt_target, liquidity, amount_remaining, fee_pips) ==
    IF amount_remaining >= 0
    THEN IF amount_remaining_less_fee(amount_remaining, fee_pips)
               >= amount_in_to(sqrt_current, sqrt_target, liquidity)
         THEN Ok(sqrt_target)
         ELSE get_next_sqrt_price_from_input(
                  sqrt_current, liquidity,
                  amount_remaining_less_fee(amount_remaining, fee_pips),
                  sqrt_current >= sqrt_target)
    ELSE IF -amount_remaining >= amount_out_to(sqrt_current, sqrt_target, liquidity)
         THEN Ok(sqrt_target)
         ELSE get_next_sqrt_price_from_output(
                  sqrt_current, liquidity, -amount_remaining,
                  sqrt_current >= sqrt_target)

\* the amounts of a step that reaches the price next
swap_step_amounts(sqrt_target, amount_remaining, fee_pips, next, amount_in, amount_out) ==
    [sqrt_ratio_next_x96 |-> next,
     amount_in |-> amount_in,
     amount_out |-> IF amount_remaining < 0 /\ amount_out > -amount_remaining
                    THEN -amount_remaining ELSE amount_out,
     fee_amount |-> IF amount_remaining >= 0 /\ next # sqrt_target
                    THEN amount_remaining - amount_in
                    ELSE CeilDiv(amount_in * fee_pips, FEE_DENOMINATOR - fee_pips)]

swap_step_from(sqrt_current, sqrt_target, liquidity, amount_remaining, fee_pips, next) ==
    IF ~next.ok THEN next
    ELSE Ok(swap_step_amounts(sqrt_target, amount_remaining, fee_pips, next.v,
                              amount_in_to(sqrt_current, next.v, liquidity),
                              amount_out_to(sqrt_current, next.v, liquidity)))

\* one step towards the target at constant liquidity:
\* [sqrt_ratio_next_x96, amount_in, amount_out, fee_amount]
compute_swap_step(sqrt_current, sqrt_target, liquidity, amount_remaining, fee_pips) ==
    swap_step_from(sqrt_current, sqrt_target, liquidity, amount_remaining, fee_pips,
                   sqrt_ratio_next(sqrt_current, sqrt_target, liquidity,
                                   amount_remaining, fee_pips))

---------------------------------------------------------------------------
(* The swap loop *)

SwapState(remaining, calculated, sqrt_price, tick, liquidity) ==
    [amount_specified_remaining |-> remaining, amount_calculated |-> calculated,
     sqrt_price_x96 |-> sqrt_price, tick |-> tick, liquidity |-> liquidity]

\* entry of v3_swap: the limit in force, its validation, the initial SwapState
v3_swap_begin(fee, sqrt_price_x96, tick_current, liquidity, tick_spacing, tick_data_provider, zero_for_one, amount_specified, sqrt_price_limit_x96) ==
    LET limit == IF sqrt_price_limit_x96.some THEN sqrt_price_limit_x96.v
                 ELSE IF zero_for_one THEN MIN_SQRT_RATIO + 1 ELSE MAX_SQRT_RATIO - 1
    IN  IF zero_for_one /\ limit < MIN_SQRT_RATIO THEN Err("RATIO_MIN")
        ELSE IF zero_for_one /\ limit >= sqrt_price_x96 THEN Err("RATIO_CURRENT")
        ELSE IF ~zero_for_one /\ limit > MAX_SQRT_RATIO THEN Err("RATIO_MAX")
        ELSE IF ~zero_for_one /\ limit <= sqrt_price_x96 THEN Err("RATIO_CURRENT")
        ELSE Ok([fee |-> fee, tick_spacing |-> tick_spacing,
                 tick_data_provider |-> tick_data_provider,
                 zero_for_one |-> zero_for_one,
                 exact_input |-> amount_specified >= 0,
                 sqrt_price_limit_x96 |-> limit,
                 state |-> SwapState(amount_specified, 0, sqrt_price_x96,
                                     tick_current, liquidity)])

\* mutant: the loop runs only while an exact input remains
v3_swap_active_input(st, limit) ==
    st.amount_specified_remaining > 0 /\ st.sqrt_price_x96 # limit

\* the loop condition: remaining amount, and price not at the limit
v3_swap_active(st, limit) ==
    st.amount_specified_remaining # 0 /\ st.sqrt_price_x96 # limit

\* mutant: the step target is the next boundary price, whatever the limit
step_target_boundary(zero_for_one, sqrt_price_next_x96, limit) == sqrt_price_next_x96

\* the step target: the nearer of the next boundary price and the limit
step_target(zero_for_one, sqrt_price_next_x96, limit) ==
    IF zero_for_one THEN Max(sqrt_price_next_x96, limit)
    ELSE Min(sqrt_price_next_x96, limit)

\* mutant: the state stays on the boundary tick in both directions
tick_after_boundary_stay(zero_for_one, tick_next) == tick_next

\* the tick of the state after the price has reached the boundary tick_next
tick_after_boundary(zero_for_one, tick_next) ==
    IF zero_for_one THEN tick_next - 1 ELSE tick_next

\* the boundary tick, clamped to the tick range
clamp_tick(tick) == Max(MIN_TICK, Min(MAX_TICK, tick))

\* the amounts and the price of the state after a computed step c
step_amounts(st, s, c) ==
    [st EXCEPT
        !.amount_specified_remaining =
            IF s.exact_input THEN @ - c.amount_in - c.fee_amount ELSE @ + c.amount_out,
        !.amount_calculated =
            IF s.exact_input THEN @ - c.amount_out ELSE @ + c.amount_in + c.fee_amount,
        !.sqrt_price_x96 = c.sqrt_ratio_next_x96]

\* mutant: liquidity_net is added in both directions
step_liquidity_upwards(st, s, t) ==
    IF ~t.ok THEN t ELSE add_delta(st.liquidity, t.v.liquidity_net)

\* the liquidity once the boundary tick t is crossed
step_liquidity(st, s, t) ==
    IF ~t.ok THEN t
    ELSE add_delta(st.liquidity,
                   IF s.zero_for_one THEN -t.v.liquidity_net ELSE t.v.liquidity_net)

\* the price is on the boundary tick_next: cross it if it is initialized
step_cross(st, s, tick_next, liquidity) ==
    IF ~liquidity.ok THEN liquidity
    ELSE Ok([st EXCEPT !.liquidity = liquidity.v,
                       !.tick = tick_after_boundary(s.zero_for_one, tick_next)])

\* the price is strictly between boundaries: the tick t of the price
step_recompute(st, t) ==
    IF ~t.ok THEN t ELSE Ok([st EXCEPT !.tick = t.v])

\* the tick and the liquidity after the step from sqrt_price_start_x96
step_tick(st, s, sqrt_price_start_x96, tick_next, initialized, sqrt_price_next_x96) ==
    IF st.sqrt_price_x96 = sqrt_price_next_x96
    THEN step_cross(st, s, tick_next,
                    IF initialized
                    THEN step_liquidity(st, s, get_tick(s.tick_data_provider, tick_next))
                    ELSE Ok(st.liquidity))
    ELSE IF st.sqrt_price_x96 # sqrt_price_start_x96
    THEN step_recompute(st, get_tick_at_sqrt_ratio(st.sqrt_price_x96))
    ELSE Ok(st)

step_computed(st, s, tick_next, initialized, sqrt_price_next_x96, computed) ==
    IF ~computed.ok THEN computed
    ELSE step_tick(step_amounts(st, s, computed.v), s, st.sqrt_price_x96,
                   tick_next, initialized, sqrt_price_next_x96)

step_towards(st, s, tick_next, initialized, sqrt_price_next) ==
    IF ~sqrt_price_next.ok THEN sqrt_price_next
    ELSE step_computed(st, s, tick_next, initialized, sqrt_price_next.v,
             compute_swap_step(
                 st.sqrt_price_x96,
                 step_target(s.zero_for_one, sqrt_price_next.v, s.sqrt_price_limit_x96),
                 st.liquidity, st.amount_specified_remaining, s.fee))

step_found(st, s, found) ==
    step_towards(st, s, clamp_tick(found[1]), found[2],
                 get_sqrt_ratio_at_tick(clamp_tick(found[1])))

\* one iteration of the loop of v3_swap
v3_swap_step(st, s) ==
    step_found(st, s,
               next_initialized_tick_within_one_word(
                   s.tick_data_provider, st.tick, s.zero_for_one, s.tick_spacing))

---------------------------------------------------------------------------
(* Pool *)

\* Token::equals and Token::sorts_before of uniswap_sdk_core
equals(a, b) == a.chain_id = b.chain_id /\ a.address = b.address

sorts_before(a, b) ==
    IF a.chain_id # b.chain_id THEN Err("CHAIN_IDS")
    ELSE IF a.address = b.address THEN Err("ADDRESSES")
    ELSE Ok(a.address < b.address)

I256_MAX == 1073741823
MAX_UINT256 == 2 * I256_MAX + 1

\* CurrencyAmount::from_raw_amount
from_raw_amount(currency, amount) ==
    IF amount > MAX_UINT256 THEN Err("Core")
    ELSE Ok([currency |-> currency, amount |-> amount])

Pool(token0, token1, fee, sqrt_ratio_x96, liquidity, tick_current, tick_data_provider) ==
    [token0 |-> token0, token1 |-> token1, fee |-> fee,
     sqrt_ratio_x96 |-> sqrt_ratio_x96, liquidity |-> liquidity,
     tick_current |-> tick_current, tick_data_provider |-> tick_data_provider]

\* mutant: tokens compared by address only
involves_token_by_address(p, token) ==
    p.token0.address = token.address \/ p.token1.address = token.address

involves_token(p, token) == equals(p.token0, token) \/ equals(p.token1, token)

\* mutant: a failed comparison of the tokens counts as "does not sort before"
new_with_tick_data_provider_unchecked(token_a, token_b, fee, sqrt_ratio_x96, liquidity, tick_data_provider) ==
    LET sorted == sorts_before(token_a, token_b)
        tick == get_tick_at_sqrt_ratio(sqrt_ratio_x96)
    IN  IF ~tick.ok THEN tick
        ELSE Ok(Pool(IF sorted.ok /\ sorted.v THEN token_a ELSE token_b,
                     IF sorted.ok /\ sorted.v THEN token_b ELSE token_a,
                     fee, sqrt_ratio_x96, liquidity, tick.v, tick_data_provider))

\* mutant: the tokens are stored in argument order
new_with_tick_data_provider_unsorted(token_a, token_b, fee, sqrt_ratio_x96, liquidity, tick_data_provider) ==
    LET sorted == sorts_before(token_a, token_b)
        tick == get_tick_at_sqrt_ratio(sqrt_ratio_x96)
    IN  IF ~sorted.ok THEN sorted
        ELSE IF ~tick.ok THEN tick
        ELSE Ok(Pool(token_a, token_b,
                     fee, sqrt_ratio_x96, liquidity, tick.v, tick_data_provider))

new_with_tick_data_provider(token_a, token_b, fee, sqrt_ratio_x96, liquidity, tick_data_provider) ==
    LET sorted == sorts_before(token_a, token_b)
        tick == get_tick_at_sqrt_ratio(sqrt_ratio_x96)
    IN  IF ~sorted.ok THEN sorted
        ELSE IF ~tick.ok THEN tick
        ELSE Ok(Pool(IF sorted.v THEN token_a ELSE token_b,
                     IF sorted.v THEN token_b ELSE token_a,
                     fee, sqrt_ratio_x96, liquidity, tick.v, tick_data_provider))

\* mutant: the caller's price limit is not handed on
_swap_without_limit(p, zero_for_one, amount_specified, sqrt_price_limit_x96) ==
    v3_swap_begin(p.fee.fee, p.sqrt_ratio_x96, p.tick_current, p.liquidity,
                  p.fee.tick_spacing, p.tick_data_provider,
                  zero_for_one, amount_specified, None)

_swap(p, zero_for_one, amount_specified, sqrt_price_limit_x96) ==
    v3_swap_begin(p.fee.fee, p.sqrt_ratio_x96, p.tick_current, p.liquidity,
                  p.fee.tick_spacing, p.tick_data_provider,
                  zero_for_one, amount_specified, sqrt_price_limit_x96)

\* the entry points
ReadOnlyOps == {"get_output_amount", "get_input_amount"}
MutOps == {"get_output_amount_mut", "get_input_amount_mut"}
OutputOps == {"get_output_amount", "get_output_amount_mut"}
InputOps == {"get_input_amount", "get_input_amount_mut"}

\* direction of the swap: which token the amount is denominated in
zero_for_one_of(op, p, currency) ==
    IF op \in OutputOps THEN equals(currency, p.token0) ELSE equals(currency, p.token1)

\* exact input is passed as a positive amount, exact output as a negative one
amount_specified_of(op, amount) == IF op \in OutputOps THEN amount ELSE -amount

\* mutant: a remainder is an error whether or not a limit was given
insufficient_liquidity_any_limit(st, sqrt_price_limit_x96) ==
    st.amount_specified_remaining # 0

\* the check made when the loop has returned
insufficient_liquidity(st, sqrt_price_limit_x96) ==
    st.amount_specified_remaining # 0 /\ ~sqrt_price_limit_x96.some

\* mutant: the tick of the SwapState is stored instead of the recomputed one
commit_state_tick(p, st) ==
    [ok |-> TRUE, err |-> "",
     pool |-> [p EXCEPT !.sqrt_ratio_x96 = st.sqrt_price_x96,
                        !.tick_current = st.tick, !.liquidity = st.liquidity]]

\* the assignments of the mutating entry points, in program order
commit(p, st) ==
    LET p1 == [p EXCEPT !.sqrt_ratio_x96 = st.sqrt_price_x96]
        tick == get_tick_at_sqrt_ratio(st.sqrt_price_x96)
    IN  IF ~tick.ok THEN [ok |-> FALSE, err |-> tick.err, pool |-> p1]
        ELSE [ok |-> TRUE, err |-> "",
              pool |-> [p1 EXCEPT !.tick_current = tick.v, !.liquidity = st.liquidity]]

\* the amount returned: in the counter-token of the supplied amount
result_amount(op, p, s, st) ==
    IF op \in OutputOps
    THEN from_raw_amount(IF s.zero_for_one THEN p.token1 ELSE p.token0,
                         -st.amount_calculated)
    ELSE from_raw_amount(IF s.zero_for_one THEN p.token0 ELSE p.token1,
                         st.amount_calculated)

\* mutant: the read-only entry points store the final state too
finish_commits_always(op, p, s, st, sqrt_price_limit_x96) ==
    IF insufficient_liquidity(st, sqrt_price_limit_x96)
    THEN [pool |-> p, result |-> Err("InsufficientLiquidity")]
    ELSE LET c == commit(p, st)
         IN  IF ~c.ok THEN [pool |-> c.pool, result |-> Err(c.err)]
             ELSE [pool |-> c.pool, result |-> result_amount(op, p, s, st)]

\* mutant: the final state is stored before the remainder is checked
finish_commit_first(op, p, s, st, sqrt_price_limit_x96) ==
    LET c == IF op \in MutOps THEN commit(p, st)
             ELSE [ok |-> TRUE, err |-> "", pool |-> p]
    IN  IF insufficient_liquidity(st, sqrt_price_limit_x96)
        THEN [pool |-> c.pool, result |-> Err("InsufficientLiquidity")]
        ELSE IF ~c.ok THEN [pool |-> c.pool, result |-> Err(c.err)]
        ELSE [pool |-> c.pool, result |-> result_amount(op, p, s, st)]

\* an entry point after the loop: [pool, result]
finish(op, p, s, st, sqrt_price_limit_x96) ==
    IF insufficient_liquidity(st, sqrt_price_limit_x96)
    THEN [pool |-> p, result |-> Err("InsufficientLiquidity")]
    ELSE IF op \in MutOps
    THEN LET c == commit(p, st)
         IN  IF ~c.ok THEN [pool |-> c.pool, result |-> Err(c.err)]
             ELSE [pool |-> c.pool, result |-> result_amount(op, p, s, st)]
    ELSE [pool |-> p, result |-> result_amount(op, p, s, st)]

---------------------------------------------------------------------------
(* The two tick indices: TickListDataProvider and TickMap *)

IsSortedByIndex(ticks) ==
    \A k \in 1..(Len(ticks) - 1) : ticks[k].index <= ticks[k + 1].index

\* the orders sort_unstable_by_key may leave the ticks in: sorted by index,
\* ticks of equal index in any order
SortedByKey(ticks) ==
    {sorted \in {[k \in 1..Len(ticks) |-> ticks[f[k]]] :
                    f \in {g \in [1..Len(ticks) -> 1..Len(ticks)] :
                              \A a, b \in 1..Len(ticks) : a # b => g[a] # g[b]}} :
        IsSortedByIndex(sorted)}

\* TickListDataProvider::new: the lists it may return
TickListDataProvider_new(ticks, tick_spacing) == SortedByKey(ticks)

\* Vec::remove and Vec::insert at a 0-based position
vec_remove(v, index) == SubSeq(v, 1, index) \o SubSeq(v, index + 2, Len(v))
vec_insert(v, index, x) == SubSeq(v, 1, index) \o <<x>> \o SubSeq(v, index + 1, Len(v))

\* what a mutator returns and the list it leaves behind
Mutated(ok, err, ticks) == [ok |-> ok, err |-> err, list |-> ticks]

\* TickListDataProvider::update_tick (index is the 0-based position)
update_tick(self, index, tick) ==
    IF index >= Len(self) THEN Mutated(FALSE, "InvalidTick", self)
    ELSE IF tick.liquidity_net = 0 THEN Mutated(TRUE, "", vec_remove(self, index))
    ELSE Mutated(TRUE, "", [self EXCEPT ![index + 1] = tick])

\* slice::binary_search_by_key of the standard library on 0-based positions:
\* [found, idx]
RECURSIVE binary_search_by_key(_, _, _, _)
binary_search_by_key(v, key, base, size) ==
    IF size = 0 THEN [found |-> FALSE, idx |-> 0]
    ELSE IF size > 1
    THEN binary_search_by_key(
             v, key,
             IF v[base + size \div 2 + 1].index > key THEN base ELSE base + size \div 2,
             size - size \div 2)
    ELSE IF v[base + 1].index = key THEN [found |-> TRUE, idx |-> base]
    ELSE [found |-> FALSE, idx |-> IF v[base + 1].index < key THEN base + 1 ELSE base]

\* TickListDataProvider::push_tick
push_tick(self, tick) ==
    Mutated(TRUE, "",
            vec_insert(self, binary_search_by_key(self, tick.index, 0, Len(self)).idx, tick))

\* TickListDataProvider::remove_tick
remove_tick(self, index, tick_spacing) ==
    IF index >= Len(self) THEN Mutated(FALSE, "InvalidTick", self)
    ELSE Mutated(TRUE, "", vec_remove(self, index))

\* TickListDataProvider::has_tick: some tick of the list has the index
has_tick(self, tick_index) ==
    \E k \in 1..Len(self) : self[k].index = tick_index

\* TickListDataProvider::find_tick_with_net: the 0-based position of the first
\* tick of the list with the index
find_tick_with_net(self, tick_index) ==
    IF \E k \in 1..Len(self) : self[k].index = tick_index
    THEN Some((CHOOSE k \in 1..Len(self) :
                  /\ self[k].index = tick_index
                  /\ \A j \in 1..(k - 1) : self[j].index # tick_index) - 1)
    ELSE None

\* TickList::validate_list: the failed assertion, or "" when the list is valid
validate_list(ticks, tick_spacing) ==
    IF tick_spacing <= 0 THEN "TICK_SPACING_NONZERO"
    ELSE IF \E k \in 1..Len(ticks) : ticks[k].index % tick_spacing # 0 THEN "TICK_SPACING"
    ELSE IF SumNet(ticks) # 0 THEN "ZERO_NET"
    ELSE IF \E k \in 1..(Len(ticks) - 1) : ticks[k].index >= ticks[k + 1].index THEN "SORTED"
    ELSE ""

\* (word, bit) of a compressed tick: (compressed >> 8, compressed & 255)
position(compressed) == <<word_pos(compressed), compressed % WordSize>>

\* the words a tick of the range can fall in
Words == word_pos(MIN_TICK)..word_pos(MAX_TICK)

RECURSIVE shl(_)
\* 1 << n
shl(n) == IF n = 0 THEN 1 ELSE 2 * shl(n - 1)

bit_is_set(word, bit) == (word \div shl(bit)) % 2 = 1

\* word | (1 << bit)
or_bit(word, bit) == IF bit_is_set(word, bit) THEN word ELSE word + shl(bit)

\* word & mask
and_word(word, mask) ==
    LET bits == {b \in 0..(WordSize - 1) : bit_is_set(word, b) /\ bit_is_set(mask, b)}
        RECURSIVE sum(_)
        sum(S) == IF S = {} THEN 0
                  ELSE LET b == CHOOSE x \in S : TRUE IN shl(b) + sum(S \ {b})
    IN  sum(bits)

most_significant_bit(x) == CHOOSE b \in 0..(WordSize - 1) : shl(b) <= x /\ x < shl(b + 1)

least_significant_bit(x) ==
    CHOOSE b \in 0..(WordSize - 1) :
        bit_is_set(x, b) /\ \A c \in 0..(b - 1) : ~bit_is_set(x, c)

\* mutant: a tick's bit replaces the word instead of being or-ed into it
RECURSIVE bitmap_of_overwriting(_, _, _)
bitmap_of_overwriting(ticks, tick_spacing, bitmap) ==
    IF ticks = <<>> THEN bitmap
    ELSE bitmap_of_overwriting(
             Tail(ticks), tick_spacing,
             [bitmap EXCEPT ![position(compress(Head(ticks).index, tick_spacing))[1]] =
                 shl(position(compress(Head(ticks).index, tick_spacing))[2])])

\* the loop of TickMap::new that sets the bit of every tick
RECURSIVE bitmap_of(_, _, _)
bitmap_of(ticks, tick_spacing, bitmap) ==
    IF ticks = <<>> THEN bitmap
    ELSE bitmap_of(
             Tail(ticks), tick_spacing,
             [bitmap EXCEPT ![position(compress(Head(ticks).index, tick_spacing))[1]] =
                 or_bit(@, position(compress(Head(ticks).index, tick_spacing))[2])])

\* FxHashMap::from_iter over (tick.index, tick): the last tick of an index stays
inner_of(ticks) ==
    [i \in Indices(ticks) |->
        ticks[CHOOSE k \in 1..Len(ticks) :
                 /\ ticks[k].index = i
                 /\ \A j \in (k + 1)..Len(ticks) : ticks[j].index # i]]

NoMap == [built |-> FALSE, err |-> "", bitmap |-> [w \in Words |-> 0],
          inner |-> inner_of(<<>>), tick_spacing |-> 0]

\* mutant: the bitmap keeps one bit per word
TickMap_new_overwriting(ticks, tick_spacing) ==
    IF validate_list(ticks, tick_spacing) # ""
    THEN [NoMap EXCEPT !.err = validate_list(ticks, tick_spacing)]
    ELSE [built |-> TRUE, err |-> "",
          bitmap |-> bitmap_of_overwriting(ticks, tick_spacing, [w \in Words |-> 0]),
          inner |-> inner_of(ticks), tick_spacing |-> tick_spacing]

\* TickMap::new; a failed assertion of validate_list leaves no map
TickMap_new(ticks, tick_spacing) ==
    IF validate_list(ticks, tick_spacing) # ""
    THEN [NoMap EXCEPT !.err = validate_list(ticks, tick_spacing)]
    ELSE [built |-> TRUE, err |-> "",
          bitmap |-> bitmap_of(ticks, tick_spacing, [w \in Words |-> 0]),
          inner |-> inner_of(ticks), tick_spacing |-> tick_spacing]

\* mutant: the lookup goes by the compressed index
TickMap_get_tick_compressed(self, tick) ==
    IF compress(tick, self.tick_spacing) \in DOMAIN self.inner
    THEN Ok(self.inner[compress(tick, self.tick_spacing)])
    ELSE Err("InvalidTick")

\* TickMap::get_tick
TickMap_get_tick(self, tick) ==
    IF tick \in DOMAIN self.inner THEN Ok(self.inner[tick]) ELSE Err("InvalidTick")

\* the word at word_pos, zero when the bitmap has none
get_word(bitmap, w) == IF w \in DOMAIN bitmap THEN bitmap[w] ELSE 0

\* lte: the bits at or below bit_pos of the word of the tick
next_below(compressed, tick_spacing, masked) ==
    IF masked # 0
    THEN <<(compressed - (position(compressed)[2] - most_significant_bit(masked)))
               * tick_spacing, TRUE>>
    ELSE <<(compressed - position(compressed)[2]) * tick_spacing, FALSE>>

\* not lte: the bits at or above bit_pos of the word of the next tick
next_above(compressed, tick_spacing, masked) ==
    IF masked # 0
    THEN <<(compressed + (least_significant_bit(masked) - position(compressed)[2]))
               * tick_spacing, TRUE>>
    ELSE <<(compressed + (WordSize - 1 - position(compressed)[2])) * tick_spacing, FALSE>>

\* TickBitMap::next_initialized_tick_within_one_word
TickBitMap_next_initialized_tick_within_one_word(bitmap, tick, lte, tick_spacing) ==
    IF lte
    THEN next_below(compress(tick, tick_spacing), tick_spacing,
             and_word(get_word(bitmap, position(compress(tick, tick_spacing))[1]),
                      2 * shl(position(compress(tick, tick_spacing))[2]) - 1))
    ELSE next_above(compress(tick, tick_spacing) + 1, tick_spacing,
             and_word(get_word(bitmap, position(compress(tick, tick_spacing) + 1)[1]),
                      shl(WordSize) - shl(position(compress(tick, tick_spacing) + 1)[2])))

\* mutant: the direction of the search is not handed on
TickMap_next_initialized_tick_within_one_word_lte(self, tick, lte, tick_spacing) ==
    TickBitMap_next_initialized_tick_within_one_word(self.bitmap, tick, TRUE, tick_spacing)

\* TickMap::next_initialized_tick_within_one_word
TickMap_next_initialized_tick_within_one_word(self, tick, lte, tick_spacing) ==
    TickBitMap_next_initialized_tick_within_one_word(self.bitmap, tick, lte, tick_spacing)

---------------------------------------------------------------------------
(* Price and tick conversions *)

Q192 == Q96 * Q96

\* Price::new(base_currency, quote_currency, denominator, numerator)
Price(base_currency, quote_currency, denominator, numerator) ==
    [base_currency |-> base_currency, quote_currency |-> quote_currency,
     denominator |-> denominator, numerator |-> numerator]

\* the order of two prices as fractions
price_le(a, b) == a.numerator * b.denominator <= b.numerator * a.denominator

\* integer square root
sqrt(n) == CHOOSE r \in 0..n : r * r <= n /\ (r + 1) * (r + 1) > n

\* encode_sqrt_ratio_x96(amount1, amount0): sqrt((amount1 << 192) / amount0)
encode_sqrt_ratio_x96(amount1, amount0) == sqrt((amount1 * Q192) \div amount0)

\* mutant: the ratio is put the same way round for both orders of the tokens
tick_to_price_sorted(base_token, quote_token, tick) ==
    IF ~get_sqrt_ratio_at_tick(tick).ok THEN get_sqrt_ratio_at_tick(tick)
    ELSE IF ~sorts_before(base_token, quote_token).ok
    THEN sorts_before(base_token, quote_token)
    ELSE Ok(Price(base_token, quote_token, Q192,
                  get_sqrt_ratio_at_tick(tick).v * get_sqrt_ratio_at_tick(tick).v))

tick_to_price(base_token, quote_token, tick) ==
    IF ~get_sqrt_ratio_at_tick(tick).ok THEN get_sqrt_ratio_at_tick(tick)
    ELSE IF ~sorts_before(base_token, quote_token).ok
    THEN sorts_before(base_token, quote_token)
    ELSE IF sorts_before(base_token, quote_token).v
    THEN Ok(Price(base_token, quote_token, Q192,
                  get_sqrt_ratio_at_tick(tick).v * get_sqrt_ratio_at_tick(tick).v))
    ELSE Ok(Price(base_token, quote_token,
                  get_sqrt_ratio_at_tick(tick).v * get_sqrt_ratio_at_tick(tick).v, Q192))

\* the sqrt ratio of the price as token1 per token0
price_sqrt_ratio_x96(price, sorted) ==
    IF sorted THEN encode_sqrt_ratio_x96(price.numerator, price.denominator)
    ELSE encode_sqrt_ratio_x96(price.denominator, price.numerator)

\* the tick or its upper neighbour, by the price of the upper neighbour
closest_of(price, sorted, tick, next_tick_price) ==
    IF ~next_tick_price.ok THEN next_tick_price
    ELSE IF sorted
    THEN Ok(IF price_le(next_tick_price.v, price) THEN tick + 1 ELSE tick)
    ELSE Ok(IF price_le(price, next_tick_price.v) THEN tick + 1 ELSE tick)

\* the tick of the ratio and the price of the next tick
closest_from(price, sorted, tick) ==
    IF ~tick.ok THEN tick
    ELSE closest_of(price, sorted, tick.v,
                    tick_to_price(price.base_currency, price.quote_currency, tick.v + 1))

price_to_closest_tick(price) ==
    IF ~sorts_before(price.base_currency, price.quote_currency).ok
    THEN sorts_before(price.base_currency, price.quote_currency)
    ELSE closest_from(
             price, sorts_before(price.base_currency, price.quote_currency).v,
             get_tick_at_sqrt_ratio(
                 price_sqrt_ratio_x96(
                     price, sorts_before(price.base_currency, price.quote_currency).v)))

---------------------------------------------------------------------------
(* Inputs *)

\* tick snapshots handed to the constructor (aligned to every spacing in Fees)
Snapshots ==
    { <<>>,
      <<Tick(-2, 1, 1), Tick(2, 1, -1)>>,
      <<Tick(-2, 1, 1), Tick(0, 1, 1), Tick(2, 2, -2)>> }

\* the step counter saturates here, above the longest walk over the tick range
StepCap == 4 * MaxTick + 4

Amounts == 0..MaxAmount
Liquidities == 0..MaxLiquidity
Limits == {None} \cup {Some(x) : x \in SqrtPrices}

NoToken == Token(0, 0)
NoPool == Pool(NoToken, NoToken, FEE_LOWEST, 0, 0, 0, <<>>)
NoCall == [op |-> "", currency |-> NoToken, amount |-> 0, sqrt_price_limit_x96 |-> None]
NoSwap == [fee |-> 0, tick_spacing |-> 0, tick_data_provider |-> <<>>,
           zero_for_one |-> FALSE, exact_input |-> FALSE, sqrt_price_limit_x96 |-> 0]
NoState == SwapState(0, 0, 0, 0, 0)
NoResult == [ok |-> FALSE, err |-> "", v |-> 0]
NoCtor == [token_a |-> NoToken, token_b |-> NoToken, sqrt_ratio_x96 |-> 0, ok |-> FALSE, err |-> ""]

\* inputs of the tick indices
IndexRange == MIN_TICK..MAX_TICK
Spacings == {f.tick_spacing : f \in Fees}
Nets == {-1, 0, 1}
SnapshotTicks == {Tick(i, 1, n) : i \in IndexRange, n \in Nets}
UpdateTicks == {Tick(i, 2, n) : i \in IndexRange, n \in Nets}
SnapshotSeqs == UNION {[1..n -> SnapshotTicks] : n \in 0..MaxLen}

NoTick == Tick(0, 0, 0)
NoSnapshot == [ticks |-> <<>>, tick_spacing |-> 0]
NoMutation == [op |-> "", index |-> 0, tick |-> NoTick, before |-> <<>>, ok |-> FALSE, err |-> ""]

\* the outcome of get_tick as the caller sees it
Looked(r) == [ok |-> r.ok, err |-> r.err, tick |-> IF r.ok THEN r.v ELSE NoTick]

NoLooked == [ok |-> FALSE, err |-> "", tick |-> NoTick]
NoQuery == [tick |-> 0, lte |-> FALSE, list_tick |-> NoLooked, map_tick |-> NoLooked,
            list_next |-> <<0, FALSE>>, map_next |-> <<0, FALSE>>,
            has_tick |-> FALSE, find_tick |-> None]

\* inputs of the conversions
TickInputs == (MIN_TICK - 1)..(MAX_TICK + 1)
Terms == 1..MaxTerm
NoPrice == Price(NoToken, NoToken, 0, 0)

\* the outcome of tick_to_price as the caller sees it
Priced(r) == [ok |-> r.ok, err |-> r.err, price |-> IF r.ok THEN r.v ELSE NoPrice]

NoConv == [pc |-> "start", tick |-> 0, sqrt |-> NoResult, back |-> NoResult,
           price |-> Priced(NoResult), closest |-> NoResult]

---------------------------------------------------------------------------
(* The state machine *)

Init ==
    /\ pc = "start"
    /\ ctor = NoCtor
    /\ pool = NoPool
    /\ call = NoCall
    /\ pre = NoPool
    /\ sw = NoSwap
    /\ state = NoState
    /\ steps = 0
    /\ result = NoResult
    /\ ipc = "start"
    /\ snapshot = NoSnapshot
    /\ list = <<>>
    /\ tick_map = NoMap
    /\ mutation = NoMutation
    /\ query = NoQuery
    /\ conv = NoConv

\* Pool::new_with_tick_data_provider
New ==
    /\ pc = "start"
    /\ \E token_a \in Tokens, token_b \in Tokens, fee \in Fees,
          sqrt_ratio_x96 \in SqrtPrices, liquidity \in Liquidities,
          ticks \in Snapshots :
         LET r == new_with_tick_data_provider(token_a, token_b, fee,
                                              sqrt_ratio_x96, liquidity, ticks)
         IN  /\ ctor' = [token_a |-> token_a, token_b |-> token_b,
                         sqrt_ratio_x96 |-> sqrt_ratio_x96,
                         ok |-> r.ok, err |-> r.err]
             /\ pool' = IF r.ok THEN r.v ELSE NoPool
             /\ pc' = "done"
    /\ UNCHANGED <<call, pre, sw, state, steps, result>>
    /\ UNCHANGED <<index_vars, conv>>

\* an entry point up to the loop of v3_swap: the token check and the call of _swap
Enter(op, currency, amount, sqrt_price_limit_x96) ==
    /\ pc = "idle"
    /\ call' = [op |-> op, currency |-> currency, amount |-> amount,
                sqrt_price_limit_x96 |-> sqrt_price_limit_x96]
    /\ pre' = pool
    /\ steps' = 0
    /\ UNCHANGED <<ctor, pool>>
    /\ UNCHANGED <<index_vars, conv>>
    /\ IF ~involves_token(pool, currency)
       THEN /\ result' = Err("InvalidToken")
            /\ pc' = "done"
            /\ UNCHANGED <<sw, state>>
       ELSE LET r == _swap(pool, zero_for_one_of(op, pool, currency),
                           amount_specified_of(op, amount), sqrt_price_limit_x96)
            IN  IF ~r.ok
                THEN /\ result' = r
                     /\ pc' = "done"
                     /\ UNCHANGED <<sw, state>>
                ELSE /\ sw' = [k \in DOMAIN NoSwap |-> r.v[k]]
                     /\ state' = r.v.state
                     /\ result' = NoResult
                     /\ pc' = "loop"

get_output_amount ==
    \E currency \in Tokens, amount \in Amounts, limit \in Limits :
        Enter("get_output_amount", currency, amount, limit)

get_output_amount_mut ==
    \E currency \in Tokens, amount \in Amounts, limit \in Limits :
        Enter("get_output_amount_mut", currency, amount, limit)

get_input_amount ==
    \E currency \in Tokens, amount \in Amounts, limit \in Limits :
        Enter("get_input_amount", currency, amount, limit)

get_input_amount_mut ==
    \E currency \in Tokens, amount \in Amounts, limit \in Limits :
        Enter("get_input_amount_mut", currency, amount, limit)

\* one iteration of the loop; its first failure is returned by the entry point
Step ==
    /\ pc = "loop"
    /\ v3_swap_active(state, sw.sqrt_price_limit_x96)
    /\ \E r \in {v3_swap_step(state, sw)} :
          /\ state' = IF r.ok THEN r.v ELSE state
          /\ pc' = IF r.ok THEN "loop" ELSE "done"
          /\ result' = IF r.ok THEN result ELSE r
    /\ steps' = Min(steps + 1, StepCap)
    /\ UNCHANGED <<ctor, pool, call, pre, sw>>
    /\ UNCHANGED <<index_vars, conv>>

\* the loop has ended: the rest of the entry point
Return ==
    /\ pc = "loop"
    /\ ~v3_swap_active(state, sw.sqrt_price_limit_x96)
    /\ \E f \in {finish(call.op, pool, sw, state, call.sqrt_price_limit_x96)} :
          /\ pool' = f.pool
          /\ result' = f.result
    /\ pc' = "done"
    /\ UNCHANGED <<ctor, call, pre, sw, state, steps>>
    /\ UNCHANGED <<index_vars, conv>>

\* the caller drops the result of the call
Drop ==
    /\ pc = "done"
    /\ pc' = IF pool = NoPool THEN "start" ELSE "idle"
    /\ ctor' = NoCtor
    /\ call' = NoCall
    /\ pre' = NoPool
    /\ sw' = NoSwap
    /\ state' = NoState
    /\ steps' = 0
    /\ result' = NoResult
    /\ UNCHANGED pool
    /\ UNCHANGED <<index_vars, conv>>

\* both indices are built from one snapshot: TickListDataProvider::new and
\* TickMap::new
Build ==
    /\ ipc = "start"
    /\ \E ticks \in SnapshotSeqs, tick_spacing \in Spacings :
         /\ snapshot' = [ticks |-> ticks, tick_spacing |-> tick_spacing]
         /\ list' \in TickListDataProvider_new(ticks, tick_spacing)
         /\ tick_map' = TickMap_new(ticks, tick_spacing)
    /\ ipc' = "built"
    /\ UNCHANGED <<mutation, query>>
    /\ UNCHANGED <<pool_vars, conv>>

\* a mutator of the list has returned r; the list is no longer the index of
\* the snapshot, and its companion map is dropped
Mutate(op, index, tick, r) ==
    /\ ipc \in {"built", "mutated"}
    /\ mutation' = [op |-> op, index |-> index, tick |-> tick, before |-> list,
                    ok |-> r.ok, err |-> r.err]
    /\ list' = r.list
    /\ snapshot' = NoSnapshot
    /\ tick_map' = NoMap
    /\ ipc' = "mutated"
    /\ UNCHANGED query
    /\ UNCHANGED <<pool_vars, conv>>

UpdateTick ==
    \E index \in 0..MaxLen, tick \in UpdateTicks :
        Mutate("update_tick", index, tick, update_tick(list, index, tick))

PushTick ==
    /\ Len(list) < MaxLen
    /\ \E tick \in UpdateTicks :
          Mutate("push_tick", 0, tick, push_tick(list, tick))

RemoveTick ==
    \E index \in 0..MaxLen, tick_spacing \in Spacings :
        Mutate("remove_tick", index, NoTick, remove_tick(list, index, tick_spacing))

\* one lookup through the TickDataProvider interface of each index
Query ==
    /\ ipc = "built"
    /\ \E tick \in IndexRange, lte \in BOOLEAN :
         query' = [tick |-> tick, lte |-> lte,
                   list_tick |-> Looked(get_tick(list, tick)),
                   map_tick |-> IF tick_map.built
                                THEN Looked(TickMap_get_tick(tick_map, tick))
                                ELSE NoLooked,
                   list_next |-> next_initialized_tick_within_one_word(
                                     list, tick, lte, snapshot.tick_spacing),
                   map_next |-> IF tick_map.built
                                THEN TickMap_next_initialized_tick_within_one_word(
                                         tick_map, tick, lte, snapshot.tick_spacing)
                                ELSE <<0, FALSE>>,
                   has_tick |-> has_tick(list, tick),
                   find_tick |-> find_tick_with_net(list, tick)]
    /\ ipc' = "queried"
    /\ UNCHANGED <<snapshot, list, tick_map, mutation>>
    /\ UNCHANGED <<pool_vars, conv>>

\* the list is asked for a tick by has_tick and by find_tick_with_net
FindTick ==
    /\ ipc \in {"built", "mutated"}
    /\ \E tick_index \in IndexRange :
         query' = [NoQuery EXCEPT !.tick = tick_index,
                                  !.has_tick = has_tick(list, tick_index),
                                  !.find_tick = find_tick_with_net(list, tick_index)]
    /\ ipc' = "found"
    /\ UNCHANGED <<snapshot, list, tick_map, mutation>>
    /\ UNCHANGED <<pool_vars, conv>>

\* the caller drops the indices
IndexDrop ==
    /\ ipc \in {"mutated", "queried", "found"}
    /\ ipc' = "start"
    /\ snapshot' = NoSnapshot
    /\ list' = <<>>
    /\ tick_map' = NoMap
    /\ mutation' = NoMutation
    /\ query' = NoQuery
    /\ UNCHANGED <<pool_vars, conv>>

\* TickMath::get_sqrt_ratio_at_tick of a tick
TickToSqrtRatio ==
    /\ conv.pc = "start"
    /\ \E tick \in TickInputs :
          conv' = [NoConv EXCEPT !.pc = "ratio", !.tick = tick,
                                 !.sqrt = get_sqrt_ratio_at_tick(tick)]
    /\ UNCHANGED <<pool_vars, index_vars>>

\* TickMath::get_tick_at_sqrt_ratio of the ratio just computed
SqrtRatioToTick ==
    /\ conv.pc = "ratio"
    /\ conv.sqrt.ok
    /\ conv' = [conv EXCEPT !.pc = "tick", !.back = get_tick_at_sqrt_ratio(conv.sqrt.v)]
    /\ UNCHANGED <<pool_vars, index_vars>>

\* tick_to_price of two tokens and a tick
TickToPrice ==
    /\ conv.pc = "start"
    /\ \E base_token \in Tokens, quote_token \in Tokens, tick \in TickInputs :
          conv' = [NoConv EXCEPT !.pc = "priced", !.tick = tick,
                                 !.price = Priced(tick_to_price(base_token, quote_token, tick))]
    /\ UNCHANGED <<pool_vars, index_vars>>

\* a price the caller makes with Price::new
NewPrice ==
    /\ conv.pc = "start"
    /\ \E base_token \in Tokens, quote_token \in Tokens,
          denominator \in Terms, numerator \in Terms :
          conv' = [NoConv EXCEPT
                      !.pc = "given",
                      !.price = Priced(Ok(Price(base_token, quote_token,
                                                denominator, numerator)))]
    /\ UNCHANGED <<pool_vars, index_vars>>

\* price_to_closest_tick of the price at hand
PriceToClosestTick ==
    /\ conv.pc \in {"priced", "given"}
    /\ conv.price.ok
    /\ conv' = [conv EXCEPT !.pc = IF conv.pc = "priced" THEN "round" ELSE "closest",
                            !.closest = price_to_closest_tick(conv.price.price)]
    /\ UNCHANGED <<pool_vars, index_vars>>

\* the caller drops the values
ConvDrop ==
    /\ conv.pc # "start"
    /\ conv' = NoConv
    /\ UNCHANGED <<pool_vars, index_vars>>

Next ==
    \/ New
    \/ get_output_amount
    \/ get_output_amount_mut
    \/ get_input_amount
    \/ get_input_amount_mut
    \/ Step
    \/ Return
    \/ Drop

Spec == Init /\ [][Next]_vars

\* the two indices of one snapshot and the lookups through them
IndexNext ==
    \/ Build
    \/ Query
    \/ IndexDrop

IndexSpec == Init /\ [][IndexNext]_vars

\* the list-backed index and its mutators
ListNext ==
    \/ Build
    \/ UpdateTick
    \/ PushTick
    \/ RemoveTick
    \/ FindTick
    \/ IndexDrop

ListSpec == Init /\ [][ListNext]_vars

\* the conversions between ticks, sqrt ratios and prices
ConvNext ==
    \/ TickToSqrtRatio
    \/ SqrtRatioToTick
    \/ TickToPrice
    \/ NewPrice
    \/ PriceToClosestTick
    \/ ConvDrop

ConvSpec == Init /\ [][ConvNext]_vars

\* the loop runs to its end: nothing suspends a call
FairSpec == Spec /\ WF_vars(Step) /\ WF_vars(Return)

---------------------------------------------------------------------------
(* Properties *)

\* a swap entry point has returned
Returned == pc = "done" /\ call.op # ""

\* the loop of the last call ran to its end (no sub-step failed)
LoopEnded ==
    /\ Returned
    /\ sw # NoSwap
    /\ ~v3_swap_active(state, sw.sqrt_price_limit_x96)

\* the fields a swap may change are as they were when the call was entered
PriceStateUnchanged ==
    /\ pool.sqrt_ratio_x96 = pre.sqrt_ratio_x96
    /\ pool.tick_current = pre.tick_current
    /\ pool.liquidity = pre.liquidity

\* the amount's currency is one of the two pool tokens
CurrencyInPool == call.currency = pre.token0 \/ call.currency = pre.token1

\* the direction of the last call
CallZeroForOne ==
    IF call.op \in OutputOps THEN call.currency = pre.token0
    ELSE call.currency = pre.token1

\* C1: get_output_amount and get_input_amount never change the Pool, whether
\* they return Ok or Err: every field is as it was before the call.
ReadOnlyNeverMutates ==
    (Returned /\ call.op \in ReadOnlyOps) => pool = pre

ReadOnlyNeverMutatesWitness ==
    /\ Returned /\ call.op \in ReadOnlyOps /\ result.ok
    /\ steps > 0
    /\ state.sqrt_price_x96 # pre.sqrt_ratio_x96
    /\ state.liquidity # pre.liquidity

\* C2: after a successful mutating swap the Pool holds the sqrt_price_x96,
\* the tick and the liquidity of the final SwapState.
MutCommitsFinalSwapState ==
    (LoopEnded /\ call.op \in MutOps /\ result.ok) =>
        /\ pool.sqrt_ratio_x96 = state.sqrt_price_x96
        /\ pool.tick_current = state.tick
        /\ pool.liquidity = state.liquidity

\* C3: a mutating swap that returns an error leaves sqrt_ratio_x96,
\* tick_current and liquidity as they were before the call.
MutCommitsNothingOnFailure ==
    (Returned /\ call.op \in MutOps /\ ~result.ok) => PriceStateUnchanged

MutCommitsNothingOnFailureWitness ==
    /\ LoopEnded /\ call.op \in MutOps
    /\ result.err = "InsufficientLiquidity"
    /\ state.sqrt_price_x96 # pre.sqrt_ratio_x96
    /\ state.liquidity # pre.liquidity

\* C4: tick_current is the tick containing sqrt_ratio_x96, after construction
\* and after every mutating swap.
TickConsistentWithPrice ==
    pool # NoPool =>
        /\ pool.tick_current \in MIN_TICK..MAX_TICK
        /\ get_sqrt_ratio_at_tick(pool.tick_current).v <= pool.sqrt_ratio_x96
        /\ pool.tick_current < MAX_TICK =>
               pool.sqrt_ratio_x96 < get_sqrt_ratio_at_tick(pool.tick_current + 1).v

TickConsistentWithPriceWitness ==
    /\ LoopEnded /\ call.op \in MutOps /\ result.ok
    /\ pool.sqrt_ratio_x96 # pre.sqrt_ratio_x96
    /\ state.tick # pool.tick_current

\* C5: every entry point returns InvalidToken when the amount's currency is
\* neither token0 nor token1, without running a swap step or changing the pool.
ForeignTokenRejected ==
    (Returned /\ ~CurrencyInPool) =>
        /\ result = Err("InvalidToken")
        /\ steps = 0
        /\ sw = NoSwap
        /\ pool = pre

ForeignTokenRejectedWitness ==
    /\ Returned /\ call.op \in MutOps
    /\ call.currency.address = pre.token0.address
    /\ call.currency # pre.token0
    /\ result = Err("InvalidToken")

\* C6: when the loop ends with a remainder, the entry point returns
\* InsufficientLiquidity if no limit was given, and Ok with the partially
\* filled amount if the swap stopped at an explicit limit.
RemainderAtLoopEnd ==
    (LoopEnded /\ state.amount_specified_remaining # 0) =>
        IF ~call.sqrt_price_limit_x96.some
        THEN result = Err("InsufficientLiquidity")
        ELSE /\ state.sqrt_price_x96 = call.sqrt_price_limit_x96.v
             /\ result.ok
             /\ result.v.amount = IF call.op \in OutputOps
                                  THEN -state.amount_calculated
                                  ELSE state.amount_calculated

RemainderAtLoopEndWitness ==
    /\ LoopEnded /\ state.amount_specified_remaining # 0
    /\ call.sqrt_price_limit_x96.some
    /\ result.ok /\ result.v.amount > 0
    /\ steps > 1

\* the explicit limit of the last call lies strictly beyond the price on the
\* travel side and within [MIN_SQRT_RATIO, MAX_SQRT_RATIO]
LimitBeyondPrice ==
    LET limit == call.sqrt_price_limit_x96.v IN
    /\ limit >= MIN_SQRT_RATIO
    /\ limit <= MAX_SQRT_RATIO
    /\ IF CallZeroForOne THEN limit < pre.sqrt_ratio_x96
       ELSE limit > pre.sqrt_ratio_x96

\* C7: a swap with an explicit limit that is not strictly beyond the current
\* price on the travel side, or not within [MIN_SQRT_RATIO, MAX_SQRT_RATIO],
\* fails without running a step.
BadLimitRejected ==
    (Returned /\ CurrencyInPool /\ call.sqrt_price_limit_x96.some
        /\ ~LimitBeyondPrice) =>
        /\ ~result.ok
        /\ steps = 0
        /\ sw = NoSwap

BadLimitRejectedWitness ==
    /\ Returned /\ CurrencyInPool /\ call.sqrt_price_limit_x96.some
    /\ call.amount > 0
    /\ call.sqrt_price_limit_x96.v >= MIN_SQRT_RATIO
    /\ call.sqrt_price_limit_x96.v <= MAX_SQRT_RATIO
    /\ IF CallZeroForOne THEN call.sqrt_price_limit_x96.v > pre.sqrt_ratio_x96
       ELSE call.sqrt_price_limit_x96.v < pre.sqrt_ratio_x96
    /\ result.err = "RATIO_CURRENT"

\* a mutating swap was called with the limit at the current price
MutAtLimit ==
    /\ Returned /\ call.op \in MutOps /\ CurrencyInPool
    /\ call.sqrt_price_limit_x96 = Some(pre.sqrt_ratio_x96)

\* C8 as stated: a mutating swap whose limit equals the current price
\* returns a zero amount and leaves the price state unchanged.
MutAtLimitReturnsZero ==
    MutAtLimit => /\ result.ok
                  /\ result.v.amount = 0
                  /\ PriceStateUnchanged

\* C8 as amended: a mutating swap whose limit equals the current price
\* fails without running a step and leaves the price state unchanged.
MutAtLimitFails ==
    MutAtLimit => /\ ~result.ok
                  /\ steps = 0
                  /\ PriceStateUnchanged

MutAtLimitFailsWitness ==
    /\ MutAtLimit
    /\ call.amount > 0
    /\ pre.liquidity > 0
    /\ result.err = "RATIO_CURRENT"

\* C10: for two distinct same-chain tokens, in either argument order, the
\* pool has token0 = the token with the smaller address and token1 = the
\* other one.
TokensCanonicallyOrdered ==
    (pc = "done" /\ ctor.ok) =>
        LET a == ctor.token_a
            b == ctor.token_b
        IN  /\ pool.token0.address < pool.token1.address
            /\ pool.token0 = IF a.address < b.address THEN a ELSE b
            /\ pool.token1 = IF a.address < b.address THEN b ELSE a

TokensCanonicallyOrderedWitness ==
    /\ pc = "done" /\ ctor.ok
    /\ ctor.token_a.address > ctor.token_b.address
    /\ pool.token0 = ctor.token_b

WordsInRange ==
    word_pos(compress(MAX_TICK, sw.tick_spacing))
        - word_pos(compress(MIN_TICK, sw.tick_spacing)) + 1

\* C9: every swap call terminates: the loop runs at most one step per
\* initialized tick and per word of the tick range, and a last one, also
\* with zero liquidity and with empty words.  (Every iteration counts in
\* steps, which saturates only above this bound, and in the loop exactly one
\* of Step and Return is enabled: a loop that went on would exceed the bound.)
SwapTerminates ==
    /\ sw # NoSwap => steps <= Len(sw.tick_data_provider) + WordsInRange + 1
    /\ pc = "loop" =>
           \/ v3_swap_active(state, sw.sqrt_price_limit_x96)
                  /\ steps < StepCap
           \/ ~v3_swap_active(state, sw.sqrt_price_limit_x96)

SwapTerminatesWitness ==
    /\ LoopEnded
    /\ pre.liquidity = 0
    /\ sw.tick_data_provider = <<>>
    /\ steps >= 3

---------------------------------------------------------------------------
(* Properties of the tick indices *)

StrictlyIncreasing(ticks) ==
    \A k \in 1..(Len(ticks) - 1) : ticks[k].index < ticks[k + 1].index

Aligned(ticks, tick_spacing) ==
    \A k \in 1..Len(ticks) : ticks[k].index % tick_spacing = 0

\* C12: the list TickListDataProvider::new returns is strictly increasing by
\* index (so without duplicates) and every index is a multiple of the spacing,
\* for every snapshot new accepts.
ListStrictlyIncreasingAligned ==
    ipc = "built" =>
        /\ StrictlyIncreasing(list)
        /\ Aligned(list, snapshot.tick_spacing)

\* C13: a successful update_tick, push_tick or remove_tick on a list sorted
\* by index leaves the list sorted by index, also when update_tick changes
\* the index of the entry.
MutatorsPreserveOrder ==
    (ipc = "mutated" /\ mutation.ok /\ StrictlyIncreasing(mutation.before)) =>
        IsSortedByIndex(list)

\* C14: update_tick(i, t) with i < len and t.liquidity_net = 0 removes the
\* entry at position i: the list is one shorter, the other entries keep their
\* contents and order, and get_tick of the removed entry's index fails.
NeutralUpdateDeletes ==
    (ipc = "mutated" /\ mutation.op = "update_tick"
        /\ mutation.index < Len(mutation.before)
        /\ mutation.tick.liquidity_net = 0) =>
        /\ mutation.ok
        /\ Len(list) = Len(mutation.before) - 1
        /\ \A k \in 1..Len(list) :
              list[k] = mutation.before[IF k <= mutation.index THEN k ELSE k + 1]
        /\ ~get_tick(list, mutation.before[mutation.index + 1].index).ok

\* the liquidity_net of the ticks of a TickMap
RECURSIVE SumNetOf(_, _)
SumNetOf(inner, keys) ==
    IF keys = {} THEN 0
    ELSE LET i == CHOOSE x \in keys : TRUE
         IN  inner[i].liquidity_net + SumNetOf(inner, keys \ {i})

\* C15: every index built from a snapshot is conserved: the liquidity_net of
\* the ticks of a built TickListDataProvider and of a built TickMap sum to
\* zero, a snapshot that does not sum to zero being rejected by both.
BuiltIndicesConserved ==
    ipc = "built" =>
        /\ SumNet(list) = 0
        /\ tick_map.built => SumNetOf(tick_map.inner, DOMAIN tick_map.inner) = 0
        /\ SumNet(snapshot.ticks) # 0 => ~tick_map.built

\* C16: update_tick fails with ZERO_NET and leaves the list as it was when
\* the updated list's liquidity_net would not sum to zero.
UnbalancedUpdateRejected ==
    (ipc = "mutated" /\ mutation.op = "update_tick") =>
        /\ mutation.ok => SumNet(list) = 0
        /\ ~mutation.ok => list = mutation.before

\* C17: after a successful update_tick(i, t) with t.liquidity_net # 0 on a
\* sorted list, get_tick(t.index) returns an entry with t's liquidity_gross
\* and liquidity_net, whatever the position i and also when t.index is not the
\* index of the entry replaced.
UpdatedTickIsFound ==
    (ipc = "mutated" /\ mutation.op = "update_tick" /\ mutation.ok
        /\ mutation.tick.liquidity_net # 0
        /\ StrictlyIncreasing(mutation.before)) =>
        /\ get_tick(list, mutation.tick.index).ok
        /\ get_tick(list, mutation.tick.index).v.liquidity_gross
               = mutation.tick.liquidity_gross
        /\ get_tick(list, mutation.tick.index).v.liquidity_net
               = mutation.tick.liquidity_net

\* the bit of tick i in the bitmap of the map
BitOf(self, i) ==
    bit_is_set(get_word(self.bitmap, position(compress(i, self.tick_spacing))[1]),
               position(compress(i, self.tick_spacing))[2])

\* C18: in a TickMap built by TickMap::new, for every tick index i that is a
\* multiple of the spacing, the bit of i is set exactly when i is a key of
\* the tick store, and get_tick(i) succeeds exactly then, with InvalidTick
\* otherwise.
BitmapConsistentWithStore ==
    (ipc \in {"built", "queried"} /\ tick_map.built) =>
        /\ DOMAIN tick_map.inner = Indices(snapshot.ticks)
        /\ \A i \in IndexRange :
              i % tick_map.tick_spacing = 0 =>
                 /\ BitOf(tick_map, i) <=> i \in DOMAIN tick_map.inner
                 /\ TickMap_get_tick(tick_map, i).ok <=> i \in DOMAIN tick_map.inner
                 /\ i \notin DOMAIN tick_map.inner =>
                       TickMap_get_tick(tick_map, i).err = "InvalidTick"

BitmapConsistentWithStoreWitness ==
    /\ ipc = "built" /\ tick_map.built
    /\ \E i, j \in DOMAIN tick_map.inner :
          /\ i < j
          /\ position(compress(i, tick_map.tick_spacing))[1]
                = position(compress(j, tick_map.tick_spacing))[1]
          /\ BitOf(tick_map, i) /\ BitOf(tick_map, j)

\* the word the search from the queried tick is confined to
QueryWord ==
    word_pos(compress(query.tick, snapshot.tick_spacing) + (IF query.lte THEN 0 ELSE 1))

\* the initialized ticks of the map in that word, in the direction of travel
QueryCandidates ==
    {i \in DOMAIN tick_map.inner :
        /\ word_pos(compress(i, snapshot.tick_spacing)) = QueryWord
        /\ IF query.lte THEN i <= query.tick ELSE i > query.tick}

\* C19: the search of a TickMap stays in one word: downwards it returns the
\* greatest initialized tick <= tick in the word of the tick, upwards the
\* least initialized tick > tick in the word of the next position, with
\* initialized = true; without such a tick it returns the boundary tick of
\* that word in the direction of travel with initialized = false.
MapSearchWithinOneWord ==
    (ipc = "queried" /\ tick_map.built) =>
        /\ word_pos(compress(query.map_next[1], snapshot.tick_spacing)) = QueryWord
        /\ QueryCandidates # {} =>
              /\ query.map_next[2]
              /\ query.map_next[1] \in QueryCandidates
              /\ \A i \in QueryCandidates :
                    IF query.lte THEN i <= query.map_next[1] ELSE i >= query.map_next[1]
        /\ QueryCandidates = {} =>
              /\ ~query.map_next[2]
              /\ query.map_next[1] =
                    IF query.lte
                    THEN QueryWord * WordSize * snapshot.tick_spacing
                    ELSE ((QueryWord + 1) * WordSize - 1) * snapshot.tick_spacing

MapSearchWithinOneWordWitness ==
    /\ ipc = "queried" /\ tick_map.built
    /\ ~query.lte
    /\ Cardinality(QueryCandidates) = 1
    /\ query.map_next[2]
    /\ query.map_next[1] > query.tick + 1

---------------------------------------------------------------------------
(* Properties of the conversions *)

RoundTripped == conv.pc = "round" /\ conv.tick \in MIN_TICK..MAX_TICK

\* C22: for every valid tick t and two distinct tokens of one chain, in
\* either order, price_to_closest_tick(tick_to_price(base, quote, t)) = t.
ClosestTickInvertsTickToPrice ==
    RoundTripped => (conv.closest.ok /\ conv.closest.v = conv.tick)

\* C22 as amended: the same for every valid tick below MAX_TICK.
ClosestTickInvertsBelowMaxTick ==
    (RoundTripped /\ conv.tick < MAX_TICK) =>
        (conv.closest.ok /\ conv.closest.v = conv.tick)

ClosestTickInvertsBelowMaxTickWitness ==
    /\ RoundTripped
    /\ conv.tick = MAX_TICK - 1
    /\ ~sorts_before(conv.price.price.base_currency, conv.price.price.quote_currency).v
    /\ conv.closest.v = conv.tick

\* C27: the price of the tick price_to_closest_tick returns is at most the
\* input price, in either order of the tokens:
\* tick_to_price(p.base, p.quote, price_to_closest_tick(p)) <= p.
ClosestTickPriceAtMostInput ==
    (conv.pc \in {"round", "closest"} /\ conv.closest.ok) =>
        price_le(tick_to_price(conv.price.price.base_currency,
                               conv.price.price.quote_currency, conv.closest.v).v,
                 conv.price.price)

---------------------------------------------------------------------------
(* Properties of the steps of a swap *)

\* an iteration of the loop has run from this state to the next
Stepped == pc = "loop" /\ pc' = "loop" /\ steps' = steps + 1

\* the boundary tick of the iteration that starts in this state, and whether
\* it is initialized
StepBoundary ==
    clamp_tick(next_initialized_tick_within_one_word(
                   sw.tick_data_provider, state.tick, sw.zero_for_one, sw.tick_spacing)[1])

StepInitialized ==
    next_initialized_tick_within_one_word(
        sw.tick_data_provider, state.tick, sw.zero_for_one, sw.tick_spacing)[2]

\* the boundary ticks of the current call: the initialized ticks and the
\* first and last tick of every word, clamped to the tick range
Boundaries ==
    Indices(sw.tick_data_provider)
    \cup {clamp_tick(w * WordSize * sw.tick_spacing) :
             w \in (word_pos(compress(MIN_TICK, sw.tick_spacing)) - 1)
                   ..(word_pos(compress(MAX_TICK, sw.tick_spacing)) + 1)}
    \cup {clamp_tick(((w + 1) * WordSize - 1) * sw.tick_spacing) :
             w \in (word_pos(compress(MIN_TICK, sw.tick_spacing)) - 1)
                   ..(word_pos(compress(MAX_TICK, sw.tick_spacing)) + 1)}

\* C24: a step that ends with the price on its initialized boundary tick B
\* changes the liquidity by -liquidity_net(B) when zero_for_one and by
\* +liquidity_net(B) otherwise and sets the tick to B - 1 when zero_for_one
\* and to B otherwise; after a step that ends strictly between boundaries the
\* liquidity is as before and the tick is the tick of the price.
BoundaryCrossing ==
    [][Stepped =>
        /\ (state'.sqrt_price_x96 = get_sqrt_ratio_at_tick(StepBoundary).v
              /\ StepInitialized) =>
              /\ state'.liquidity = state.liquidity +
                    (IF sw.zero_for_one THEN -1 ELSE 1)
                        * get_tick(sw.tick_data_provider, StepBoundary).v.liquidity_net
              /\ state'.tick = IF sw.zero_for_one THEN StepBoundary - 1 ELSE StepBoundary
        /\ (\A b \in Boundaries :
               state'.sqrt_price_x96 # get_sqrt_ratio_at_tick(b).v) =>
              /\ state'.liquidity = state.liquidity
              /\ state'.tick = get_tick_at_sqrt_ratio(state'.sqrt_price_x96).v]_vars

\* a step has crossed an initialized tick downwards, and one upwards
BoundaryCrossingWitness ==
    /\ pc = "loop" /\ steps > 0
    /\ sw.zero_for_one
    /\ state.tick + 1 \in Indices(sw.tick_data_provider)
    /\ state.sqrt_price_x96 = get_sqrt_ratio_at_tick(state.tick + 1).v
    /\ state.liquidity # pre.liquidity

BetweenBoundariesWitness ==
    /\ pc = "loop" /\ steps > 0
    /\ \A b \in Boundaries : state.sqrt_price_x96 # get_sqrt_ratio_at_tick(b).v
    /\ state.tick # pre.tick_current

\* C25: a swap that returns its final state has nothing left to swap or is at
\* the price limit in force (the caller's, or the default of the direction).
LoopStopsAtDone ==
    (pc = "done" /\ sw # NoSwap /\ (result.ok \/ result.err = "InsufficientLiquidity")) =>
        \/ state.amount_specified_remaining = 0
        \/ state.sqrt_price_x96 = sw.sqrt_price_limit_x96

LoopStopsAtDoneWitness ==
    /\ pc = "done" /\ result.ok /\ steps > 1
    /\ state.amount_specified_remaining # 0
    /\ state.sqrt_price_x96 = sw.sqrt_price_limit_x96
    /\ call.sqrt_price_limit_x96.some

\* C26: in every step the price moves only in the direction of the swap and
\* neither past the limit nor past the next boundary price: the target of the
\* step is the nearer of the two.
PriceMovesTowardsTarget ==
    [][Stepped =>
        IF sw.zero_for_one
        THEN /\ state'.sqrt_price_x96 <= state.sqrt_price_x96
             /\ state'.sqrt_price_x96 >= sw.sqrt_price_limit_x96
             /\ state'.sqrt_price_x96 >= get_sqrt_ratio_at_tick(StepBoundary).v
        ELSE /\ state'.sqrt_price_x96 >= state.sqrt_price_x96
             /\ state'.sqrt_price_x96 <= sw.sqrt_price_limit_x96
             /\ state'.sqrt_price_x96 <= get_sqrt_ratio_at_tick(StepBoundary).v]_vars

PriceMovesTowardsTargetWitness ==
    /\ pc = "loop" /\ steps > 0
    /\ ~sw.zero_for_one
    /\ state.sqrt_price_x96 = sw.sqrt_price_limit_x96
    /\ state.sqrt_price_x96 > pre.sqrt_ratio_x96
    /\ \A b \in Boundaries : state.sqrt_price_x96 # get_sqrt_ratio_at_tick(b).v

---------------------------------------------------------------------------
(* Properties of the lookups of the list by index *)

\* the list holds a tick with the index whose liquidity_net is not 0
HoldsTickWithNet(ticks, tick_index) ==
    \E k \in 1..Len(ticks) :
        ticks[k].index = tick_index /\ ticks[k].liquidity_net # 0

\* C28: has_tick(i) is true exactly when the list holds a tick with index i
\* whose liquidity_net is not 0, and find_tick_with_net(i) is the position of
\* such a tick, None when there is none, after any sequence of new, push_tick,
\* update_tick and remove_tick.
FindsTicksWithNet ==
    ipc = "found" =>
        /\ query.has_tick <=> HoldsTickWithNet(list, query.tick)
        /\ query.find_tick.some <=> HoldsTickWithNet(list, query.tick)
        /\ query.find_tick.some =>
              /\ list[query.find_tick.v + 1].index = query.tick
              /\ list[query.find_tick.v + 1].liquidity_net # 0

---------------------------------------------------------------------------
(* Properties of the liquidity across swaps *)

RECURSIVE ActiveNet(_, _)
\* the sum of liquidity_net over the ticks with index <= tick_current
ActiveNet(ticks, tick_current) ==
    IF ticks = <<>> THEN 0
    ELSE (IF Head(ticks).index <= tick_current THEN Head(ticks).liquidity_net ELSE 0)
         + ActiveNet(Tail(ticks), tick_current)

LiquidityConsistent(p) ==
    p.liquidity = ActiveNet(p.tick_data_provider, p.tick_current)

\* C29: a successful mutating swap of a pool whose liquidity is the sum of
\* liquidity_net over the initialized ticks with index <= tick_current leaves
\* a pool whose liquidity is that sum for the new tick_current.
LiquidityConsistentAcrossSwaps ==
    (pc = "done" /\ call.op \in MutOps /\ result.ok /\ LiquidityConsistent(pre)) =>
        LiquidityConsistent(pool)

=============================================================================
